---------------------------- MODULE Spec2Model ----------------------------
(***************************************************************************)
(* Model of GCS_Converter.py: the IPv4 <-> 32-bit integer codec            *)
(* (ip_to_int, int_to_ip) and the ModernUnitConverterApp handlers that     *)
(* use it (conversion, history list, history file, search).                *)
(*                                                                         *)
(* Text is a sequence of characters; a character is a one-element string.  *)
(* Characters outside ASCII are written by code point ("U+00B2").          *)
(* Python integers are unbounded; a value v is kept as two limbs,          *)
(* v = hi * 2^16 + lo with 0 <= lo < 2^16 and hi any integer (floor        *)
(* representation, so that >> and & behave as in Python for negatives).    *)
(***************************************************************************)
EXTENDS Integers, Sequences, FiniteSets, TLC

(***************************************************************************)
(* Unbounded integers on two limbs                                         *)
(***************************************************************************)
Limb == 2^16

Big(h, l) == [hi |-> h, lo |-> l]

BigOfNat(n) == Big(n \div Limb, n % Limb)

BigZero == Big(0, 0)

\* a <= b
BigLeq(a, b) == a.hi < b.hi \/ (a.hi = b.hi /\ a.lo <= b.lo)

\* a + b
BigAdd(a, b) ==
    LET l == a.lo + b.lo
    IN  Big(a.hi + b.hi + (l \div Limb), l % Limb)

\* -a
BigNeg(a) == IF a.lo = 0 THEN Big(0 - a.hi, 0) ELSE Big(0 - a.hi - 1, Limb - a.lo)

\* a * 10 + d, for a >= 0 and a digit d
BigMul10Add(a, d) ==
    LET l == a.lo * 10 + d
    IN  Big(a.hi * 10 + (l \div Limb), l % Limb)

\* a << 8 and a >> 8
BigShl8(a) == Big(a.hi * 256 + (a.lo \div 256), (a.lo % 256) * 256)

BigShr8(a) == Big(a.hi \div 256, (a.hi % 256) * 256 + (a.lo \div 256))

\* a << bits and a >> bits, bits a multiple of 8
RECURSIVE BigShl(_, _)
BigShl(a, bits) == IF bits = 0 THEN a ELSE BigShl(BigShl8(a), bits - 8)

RECURSIVE BigShr(_, _)
BigShr(a, bits) == IF bits = 0 THEN a ELSE BigShr(BigShr8(a), bits - 8)

\* BigAnd255 with the mask 0x7F.
BigAnd255_Mask7F(a) == a.lo % 128

\* a & 0xFF, as a small integer
BigAnd255(a) == a.lo % 256

(***************************************************************************)
(* Characters and Python's str methods                                     *)
(***************************************************************************)
AsciiDigits == <<"0", "1", "2", "3", "4", "5", "6", "7", "8", "9">>

AsciiDigit == {AsciiDigits[i] : i \in 1..10}

\* Characters of Unicode category Nd: int() reads them as decimal digits.
\* U+0663 is ARABIC-INDIC DIGIT THREE.
DecimalChar == AsciiDigit \cup {"U+0663"}

\* Characters for which str.isdigit() is true: the decimal ones and the
\* digits that are not decimal, such as U+00B2 SUPERSCRIPT TWO.
DigitChar == DecimalChar \cup {"U+00B2"}

\* Characters removed by str.strip() and skipped by int().
Whitespace == {" ", "TAB", "LF", "CR"}

DigitValue(c) ==
    IF c = "U+0663" THEN 3 ELSE CHOOSE d \in 0..9 : AsciiDigits[d + 1] = c

\* str.lower() of one character, for the characters that occur.
LowerChar(c) ==
    CASE c = "A" -> "a"
      [] c = "B" -> "b"
      [] c = "E" -> "e"
      [] c = "I" -> "i"
      [] c = "P" -> "p"
      [] c = "S" -> "s"
      [] c = "T" -> "t"
      [] c = "V" -> "v"
      [] c = "U+0178" -> "U+00FF"
      [] OTHER -> c

Lower(s) == [i \in 1..Len(s) |-> LowerChar(s[i])]

RECURSIVE LStrip(_)
LStrip(s) ==
    IF s # <<>> /\ Head(s) \in Whitespace THEN LStrip(Tail(s)) ELSE s

RECURSIVE RStrip(_)
RStrip(s) ==
    IF s # <<>> /\ s[Len(s)] \in Whitespace
    THEN RStrip(SubSeq(s, 1, Len(s) - 1))
    ELSE s

Strip(s) == RStrip(LStrip(s))

\* s.split(sep) for a one-character separator: never empty, "" gives [""].
RECURSIVE Split(_, _)
Split(s, sep) ==
    IF \E i \in 1..Len(s) : s[i] = sep
    THEN LET k == CHOOSE i \in 1..Len(s) :
                      s[i] = sep /\ \A j \in 1..(i - 1) : s[j] # sep
         IN  <<SubSeq(s, 1, k - 1)>> \o Split(SubSeq(s, k + 1, Len(s)), sep)
    ELSE <<s>>

\* sep.join(parts)
RECURSIVE Join(_, _)
Join(parts, sep) ==
    IF parts = <<>> THEN <<>>
    ELSE IF Len(parts) = 1 THEN parts[1]
    ELSE parts[1] \o <<sep>> \o Join(Tail(parts), sep)

\* p.isdigit(): non-empty and every character is a digit character
IsDigit(p) == p # <<>> /\ \A i \in 1..Len(p) : p[i] \in DigitChar

\* needle in hay
Contains(hay, needle) ==
    \E i \in 0..(Len(hay) - Len(needle)) :
        \A j \in 1..Len(needle) : hay[i + j] = needle[j]

(***************************************************************************)
(* Python values and exceptions: a call returns [exc, val]                 *)
(***************************************************************************)
Return(v) == [exc |-> "none", val |-> v]

Raise(e) == [exc |-> e, val |-> "no value"]

\* str(n) for an integer n >= 0 on two limbs: plain decimal
RECURSIVE StrNat(_)
StrNat(a) ==
    LET r1 == a.hi % 10
        t  == r1 * Limb + a.lo
        q  == Big(a.hi \div 10, t \div 10)
        d  == <<AsciiDigits[(t % 10) + 1]>>
    IN  IF q = BigZero THEN d ELSE StrNat(q) \o d

\* str(n) for any integer
Str(a) == IF a.hi < 0 THEN <<"-">> \o StrNat(BigNeg(a)) ELSE StrNat(a)

\* The digits of an int() literal: decimal characters, with single
\* underscores allowed between two of them.
IsIntBody(b) ==
    /\ b # <<>>
    /\ \A i \in 1..Len(b) : b[i] \in DecimalChar \cup {"_"}
    /\ b[1] # "_"
    /\ b[Len(b)] # "_"
    /\ \A i \in 1..(Len(b) - 1) : ~(b[i] = "_" /\ b[i + 1] = "_")

RECURSIVE IntBodyValue(_, _)
IntBodyValue(b, acc) ==
    IF b = <<>> THEN acc
    ELSE IF Head(b) = "_" THEN IntBodyValue(Tail(b), acc)
    ELSE IntBodyValue(Tail(b), BigMul10Add(acc, DigitValue(Head(b))))

\* int(s) for a string s
PyInt(s) ==
    LET t    == Strip(s)
        sgn  == IF t # <<>> /\ Head(t) \in {"+", "-"} THEN Head(t) ELSE ""
        body == IF sgn = "" THEN t ELSE Tail(t)
    IN  IF ~IsIntBody(body) THEN Raise("ValueError")
        ELSE IF sgn = "-" THEN Return(BigNeg(IntBodyValue(body, BigZero)))
        ELSE Return(IntBodyValue(body, BigZero))

(***************************************************************************)
(* The codec                                                               *)
(***************************************************************************)
OctetMax == 255

\* 0xFFFFFFFF
MaxU32 == Big(Limb - 1, Limb - 1)

\* AllOctets without the upper limit of an octet.
RECURSIVE AllOctets_NoUpperLimit(_)
AllOctets_NoUpperLimit(parts) ==
    IF parts = <<>> THEN "true"
    ELSE LET p == Head(parts)
         IN  IF ~IsDigit(p) THEN "false"
             ELSE IF PyInt(p).exc # "none" THEN "raise"
             ELSE IF ~BigLeq(BigZero, PyInt(p).val) THEN "false"
             ELSE AllOctets_NoUpperLimit(Tail(parts))

\* all(p.isdigit() and 0 <= int(p) <= 255 for p in parts), evaluated left
\* to right: "true", "false" at the first failing part, or "raise" when
\* int(p) raises for a part that passes isdigit().
RECURSIVE AllOctets(_)
AllOctets(parts) ==
    IF parts = <<>> THEN "true"
    ELSE LET p == Head(parts)
         IN  IF ~IsDigit(p) THEN "false"
             ELSE IF PyInt(p).exc # "none" THEN "raise"
             ELSE IF ~(BigLeq(BigZero, PyInt(p).val)
                       /\ BigLeq(PyInt(p).val, BigOfNat(OctetMax)))
                  THEN "false"
             ELSE AllOctets(Tail(parts))

\* SumShifted with part i shifted by 8 * i: the last octet most significant.
RECURSIVE SumShifted_LittleEndian(_, _)
SumShifted_LittleEndian(parts, i) ==
    IF i >= Len(parts) THEN BigZero
    ELSE BigAdd(BigShl(PyInt(parts[i + 1]).val, 8 * i),
                SumShifted_LittleEndian(parts, i + 1))

\* SumShifted with the octets added up unshifted.
RECURSIVE SumShifted_NoShift(_, _)
SumShifted_NoShift(parts, i) ==
    IF i >= Len(parts) THEN BigZero
    ELSE BigAdd(PyInt(parts[i + 1]).val, SumShifted_NoShift(parts, i + 1))

\* sum(int(part) << (8 * (3 - i)) for i, part in enumerate(parts)), from i
RECURSIVE SumShifted(_, _)
SumShifted(parts, i) ==
    IF i >= Len(parts) THEN BigZero
    ELSE BigAdd(BigShl(PyInt(parts[i + 1]).val, 8 * (3 - i)),
                SumShifted(parts, i + 1))

\* ip_to_int with every part stripped of whitespace before it is tested.
ip_to_int_StripParts(ip_address) ==
    LET split == Split(Strip(ip_address), ".")
        parts == [k \in 1..Len(split) |-> Strip(split[k])]
    IN  IF Len(parts) # 4 THEN Raise("ValueError")
        ELSE IF AllOctets(parts) # "true" THEN Raise("ValueError")
        ELSE Return(SumShifted(parts, 0))

ip_to_int(ip_address) ==
    LET parts == Split(Strip(ip_address), ".")
    IN  IF Len(parts) # 4 THEN Raise("ValueError")
        ELSE IF AllOctets(parts) # "true" THEN Raise("ValueError")
        ELSE Return(SumShifted(parts, 0))

\* reversed(range(4))
ReversedRange4 == <<3, 2, 1, 0>>

\* int_to_ip with the bytes in range(4) order, least significant first.
int_to_ip_NotReversed(int_value) ==
    IF ~(BigLeq(BigZero, int_value) /\ BigLeq(int_value, MaxU32))
    THEN Raise("ValueError")
    ELSE Return(Join([k \in 1..4 |->
                        StrNat(BigOfNat(BigAnd255(BigShr(int_value, 8 * (k - 1)))))],
                     "."))

\* int_to_ip with the upper limit excluded.
int_to_ip_StrictUpper(int_value) ==
    IF ~(BigLeq(BigZero, int_value) /\ BigLeq(int_value, MaxU32)
         /\ int_value # MaxU32)
    THEN Raise("ValueError")
    ELSE Return(Join([k \in 1..4 |->
                        StrNat(BigOfNat(BigAnd255(
                            BigShr(int_value, 8 * ReversedRange4[k]))))],
                     "."))

int_to_ip(int_value) ==
    IF ~(BigLeq(BigZero, int_value) /\ BigLeq(int_value, MaxU32))
    THEN Raise("ValueError")
    ELSE Return(Join([k \in 1..4 |->
                        StrNat(BigOfNat(BigAnd255(
                            BigShr(int_value, 8 * ReversedRange4[k]))))],
                     "."))

(***************************************************************************)
(* State                                                                   *)
(***************************************************************************)
VARIABLES
    cpc,    \* codec calls: "off", "start", "called", "done"
    arg,    \* the argument of the first codec call, [kind, v]
    ret1,   \* what the first codec call returned or raised
    ret2,   \* what the opposite codec call returned for ret1's value
    pc,                 \* the application: "off", "constructed", "running"
    history,            \* self.history
    file_exists,        \* os.path.exists(HISTORY_FILE)
    file,               \* the lines of HISTORY_FILE, each with its newline
    history_listbox,    \* the items of self.history_listbox, top first
    search_var,         \* self.search_var, the text of the search entry
    value_entry,        \* the text of self.value_entry
    reverse_var,        \* self.reverse_var
    conv_result_label,  \* [text, foreground] of self.conv_result_label
    handler,            \* the handler, or the edit, that ran last
    exc,                \* the exception that handler let escape, or "none"
    file0,              \* the lines of HISTORY_FILE when the program started
    loaded,             \* the entries the startup load put in self.history
    recorded,           \* the entries given to _add_history, in order
    written,            \* the entries whose write to HISTORY_FILE succeeded
    read_ok,            \* FALSE when handler's own read of HISTORY_FILE failed
    conv_input_history,     \* self.conv_input_history
    conv_input_index,       \* self.conv_input_index: None, or <<i>> for i
    search_input_history,   \* self.search_input_history
    search_input_index      \* self.search_input_index: None, or <<i>> for i

codecVars == <<cpc, arg, ret1, ret2>>

appVars ==
    <<pc, history, file_exists, file, history_listbox, search_var, value_entry,
      reverse_var, conv_result_label, handler, exc, file0, loaded, recorded,
      written, read_ok>>

recallVars ==
    <<conv_input_history, conv_input_index, search_input_history,
      search_input_index>>

vars == <<codecVars, appVars, recallVars>>

\* Python's None, for an index
None == <<>>

\* The input histories and their indexes as __init__ sets them.
RecallEmpty ==
    /\ conv_input_history = <<>>
    /\ conv_input_index = None
    /\ search_input_history = <<>>
    /\ search_input_index = None

NoCall == [exc |-> "not called", val |-> "no value"]

NoArg == [kind |-> "none", v |-> <<>>]

\* The codec is not being called on its own.
CodecOff == cpc = "off" /\ arg = NoArg /\ ret1 = NoCall /\ ret2 = NoCall

\* No application is running.
AppOff ==
    /\ pc = "off"
    /\ history = <<>>
    /\ file_exists = FALSE
    /\ file = <<>>
    /\ history_listbox = <<>>
    /\ search_var = <<>>
    /\ value_entry = <<>>
    /\ reverse_var = FALSE
    /\ conv_result_label = [text |-> <<>>, foreground |-> "RESULT_FG"]
    /\ handler = "none"
    /\ exc = "none"
    /\ file0 = <<>>
    /\ loaded = <<>>
    /\ recorded = <<>>
    /\ written = <<>>
    /\ read_ok = TRUE
    /\ RecallEmpty

(***************************************************************************)
(* Arguments of the codec calls                                            *)
(***************************************************************************)
\* Most spaces put on either side of an address text.
MaxPad == 1

Spaces(n) == [i \in 1..n |-> " "]

\* Octets as they can be typed, all accepted by ip_to_int.
GoodSegs ==
    { <<"0">>, <<"1">>, <<"2", "5", "5">>, <<"0", "1">>, <<"0", "0", "7">> }

FewSegs == { <<"0">>, <<"2", "5", "5">> }

\* Segments ip_to_int refuses.
BadSegs ==
    { <<>>, <<"2", "5", "6">>, <<"0", "2", "5", "6">>, <<"a">>, <<" ", "2">>,
      <<"2", "TAB">>, <<"-", "1">>, <<"+", "1">>, <<"1", "_", "0">>,
      <<"U+00B2">> }

\* The addresses the documentation names, and a few more.
ExampleSegLists ==
    { << <<>> >>,
      << <<"1">>, <<"2">>, <<"3">> >>,
      << <<"1">>, <<"2">>, <<"3">>, <<"2", "5", "6">> >>,
      << <<"a">>, <<"b">>, <<"c">>, <<"d">> >>,
      << <<"0", "1">>, <<"2">>, <<"3">>, <<"4">> >>,
      << <<"1">>, <<"2">>, <<"3">>, <<"0", "0", "7">> >>,
      << <<"1">>, <<" ", "2">>, <<"3">>, <<"4">> >>,
      << <<"1">>, <<"2">>, <<"3">>, <<"4">> >>,
      << <<"U+0663">>, <<"0", "U+0663">>, <<"9">>, <<"0", "0", "0", "0", "0", "8">> >>,
      << <<"1">>, <<"2">>, <<"3">>, <<"1", "0", "0", "0", "0", "0", "0", "0">> >> }

SegLists ==
    [1..4 -> GoodSegs]
    \cup { [f EXCEPT ![k] = b] : f \in [1..4 -> FewSegs], k \in 1..4, b \in BadSegs }
    \cup [1..3 -> FewSegs]
    \cup [1..5 -> FewSegs]
    \cup ExampleSegLists

TextArgs ==
    { Spaces(l) \o Join(segs, ".") \o Spaces(r) :
        l \in 0..MaxPad, r \in 0..MaxPad, segs \in SegLists }

ByteSamples == {0, 1, 10, 100, 255}

IntArgs ==
    { Big(b0 * 256 + b1, b2 * 256 + b3) :
        b0 \in ByteSamples, b1 \in ByteSamples,
        b2 \in ByteSamples, b3 \in ByteSamples }
    \cup { Big(h, l) : h \in {0 - Limb, -1, Limb, Limb + 1},
                       l \in {0, 1, Limb - 1} }

(***************************************************************************)
(* Codec calls: a call of one function on an argument, then the opposite   *)
(* function on the value it returned                                       *)
(***************************************************************************)
InitCodec ==
    /\ cpc = "start"
    /\ \/ \E t \in TextArgs : arg = [kind |-> "text", v |-> t]
       \/ \E n \in IntArgs : arg = [kind |-> "int", v |-> n]
    /\ ret1 = NoCall
    /\ ret2 = NoCall
    /\ AppOff

CallIpToInt ==
    /\ cpc = "start"
    /\ arg.kind = "text"
    /\ ret1' = ip_to_int(arg.v)
    /\ cpc' = "called"
    /\ UNCHANGED <<arg, ret2, appVars, recallVars>>

CallIntToIp ==
    /\ cpc = "start"
    /\ arg.kind = "int"
    /\ ret1' = int_to_ip(arg.v)
    /\ cpc' = "called"
    /\ UNCHANGED <<arg, ret2, appVars, recallVars>>

BackIntToIp ==
    /\ cpc = "called"
    /\ arg.kind = "text"
    /\ ret1.exc = "none"
    /\ ret2' = int_to_ip(ret1.val)
    /\ cpc' = "done"
    /\ UNCHANGED <<arg, ret1, appVars, recallVars>>

BackIpToInt ==
    /\ cpc = "called"
    /\ arg.kind = "int"
    /\ ret1.exc = "none"
    /\ ret2' = ip_to_int(ret1.val)
    /\ cpc' = "done"
    /\ UNCHANGED <<arg, ret1, appVars, recallVars>>

NextCodec == CallIpToInt \/ CallIntToIp \/ BackIntToIp \/ BackIpToInt

SpecCodec == InitCodec /\ [][NextCodec]_vars

(***************************************************************************)
(* The vocabulary of the codec's contract, read off the text by position   *)
(***************************************************************************)
\* The text without its surrounding whitespace.
Trimmed(s) ==
    LET ink == {i \in 1..Len(s) : s[i] \notin Whitespace}
    IN  IF ink = {} THEN <<>>
        ELSE SubSeq(s, CHOOSE i \in ink : \A j \in ink : i <= j,
                       CHOOSE i \in ink : \A j \in ink : j <= i)

DotsOf(t) == {i \in 1..Len(t) : t[i] = "."}

\* Position of the k-th dot of t; 0 before the first, Len(t) + 1 after the last.
DotAt(t, k) ==
    IF k = 0 THEN 0
    ELSE IF k > Cardinality(DotsOf(t)) THEN Len(t) + 1
    ELSE CHOOSE i \in DotsOf(t) : Cardinality({j \in DotsOf(t) : j < i}) = k - 1

SegmentCount(t) == Cardinality(DotsOf(t)) + 1

Segment(t, k) == SubSeq(t, DotAt(t, k - 1) + 1, DotAt(t, k) - 1)

AllDecimal(seg) == seg # <<>> /\ \A i \in 1..Len(seg) : seg[i] \in DecimalChar

\* A run of decimal digits without its leading zeros.
Significant(seg) ==
    LET nz == {i \in 1..Len(seg) : DigitValue(seg[i]) # 0}
    IN  IF nz = {} THEN <<>>
        ELSE SubSeq(seg, CHOOSE i \in nz : \A j \in nz : i <= j, Len(seg))

\* The number written by at most three digits.
SmallValue(d) ==
    IF Len(d) = 0 THEN 0
    ELSE IF Len(d) = 1 THEN DigitValue(d[1])
    ELSE IF Len(d) = 2 THEN 10 * DigitValue(d[1]) + DigitValue(d[2])
    ELSE 100 * DigitValue(d[1]) + 10 * DigitValue(d[2]) + DigitValue(d[3])

OctetInRange(seg) ==
    Len(Significant(seg)) <= 3 /\ SmallValue(Significant(seg)) \in 0..OctetMax

ValidOctet(seg) == AllDecimal(seg) /\ OctetInRange(seg)

ValidAddress(s) ==
    /\ SegmentCount(Trimmed(s)) = 4
    /\ \A k \in 1..4 : ValidOctet(Segment(Trimmed(s), k))

Octet(s, k) == SmallValue(Significant(Segment(Trimmed(s), k + 1)))

\* An octet as plain decimal, no leading zeros.
PlainDecimal(n) ==
    IF n < 10 THEN <<AsciiDigits[n + 1]>>
    ELSE IF n < 100 THEN <<AsciiDigits[(n \div 10) + 1], AsciiDigits[(n % 10) + 1]>>
    ELSE <<AsciiDigits[(n \div 100) + 1], AsciiDigits[((n \div 10) % 10) + 1],
           AsciiDigits[(n % 10) + 1]>>

Normalized(s) ==
    PlainDecimal(Octet(s, 0)) \o <<".">> \o PlainDecimal(Octet(s, 1)) \o <<".">>
    \o PlainDecimal(Octet(s, 2)) \o <<".">> \o PlainDecimal(Octet(s, 3))

\* n in [0, 4294967295]
InU32(n) == n.hi \in 0..(Limb - 1) /\ n.lo \in 0..(Limb - 1)

TextCall == cpc # "off" /\ arg.kind = "text"

IntCall == cpc # "off" /\ arg.kind = "int"

\* C1: for every valid address text s, ip_to_int(s) succeeds and
\* int_to_ip(ip_to_int(s)) is s trimmed with every octet in plain decimal
\* without leading zeros.
C1_RoundTripText ==
    (TextCall /\ ValidAddress(arg.v)) =>
        /\ cpc \in {"called", "done"} => ret1.exc = "none"
        /\ cpc = "done" => ret2 = Return(Normalized(arg.v))

C1_Witness ==
    /\ TextCall /\ cpc = "done" /\ ValidAddress(arg.v)
    /\ arg.v = <<" ", "0", "1", ".", "0", "0", "7", ".", "2", "5", "5", ".", "0">>
    /\ ret2.val = <<"1", ".", "7", ".", "2", "5", "5", ".", "0">>

\* C2: for every integer n in [0, 4294967295], int_to_ip(n) succeeds and
\* ip_to_int(int_to_ip(n)) = n.
C2_RoundTripInt ==
    (IntCall /\ InU32(arg.v)) =>
        /\ cpc \in {"called", "done"} => ret1.exc = "none"
        /\ cpc = "done" => ret2 = Return(arg.v)

C2_Witness ==
    /\ IntCall /\ cpc = "done"
    /\ arg.v = Big(1 * 256 + 10, 100 * 256 + 255)
    /\ ret1.val = <<"1", ".", "1", "0", ".", "1", "0", "0", ".", "2", "5", "5">>
    /\ ret2.val = arg.v

\* C3: for a valid address o0.o1.o2.o3, ip_to_int returns
\* o0*2^24 + o1*2^16 + o2*2^8 + o3, a value in [0, 4294967295];
\* "0.0.0.0" gives 0 and "255.255.255.255" gives 4294967295.
C3_BigEndianValue ==
    (TextCall /\ cpc \in {"called", "done"} /\ ValidAddress(arg.v)) =>
        /\ ret1 = Return(Big(Octet(arg.v, 0) * 2^8 + Octet(arg.v, 1),
                             Octet(arg.v, 2) * 2^8 + Octet(arg.v, 3)))
        /\ InU32(ret1.val)
        /\ arg.v = <<"0", ".", "0", ".", "0", ".", "0">> => ret1.val = Big(0, 0)
        /\ arg.v = <<"2", "5", "5", ".", "2", "5", "5", ".",
                     "2", "5", "5", ".", "2", "5", "5">>
               => ret1.val = Big(65535, 65535)

C3_Witness ==
    /\ TextCall /\ cpc = "called"
    /\ arg.v = <<"1", ".", "2", "5", "5", ".", "0", ".", "0", "0", "7">>
    /\ ret1 = Return(Big(511, 7))

\* C4: ip_to_int raises ValueError, and returns nothing, whenever the
\* trimmed text does not split on '.' into exactly 4 segments, or a segment
\* is empty or has a character that is not a decimal digit, or a segment's
\* value is outside [0, 255]; "1.2.3", "1.2.3.256" and "a.b.c.d" are such.
Rejectable(s) ==
    \/ SegmentCount(Trimmed(s)) # 4
    \/ \E k \in 1..SegmentCount(Trimmed(s)) :
          LET seg == Segment(Trimmed(s), k)
          IN  \/ seg = <<>>
              \/ \E i \in 1..Len(seg) : seg[i] \notin DecimalChar
              \/ AllDecimal(seg) /\ ~OctetInRange(seg)

C4_InvalidFormat ==
    /\ (TextCall /\ cpc \in {"called", "done"} /\ Rejectable(arg.v))
           => ret1 = Raise("ValueError")
    /\ (TextCall /\ arg.v \in { <<"1", ".", "2", ".", "3">>,
                                <<"1", ".", "2", ".", "3", ".", "2", "5", "6">>,
                                <<"a", ".", "b", ".", "c", ".", "d">> })
           => Rejectable(arg.v)

C4_Witness ==
    /\ TextCall /\ cpc = "called"
    /\ arg.v = <<"1", ".", "2", ".", "3", ".", "2", "5", "6">>
    /\ ret1 = Raise("ValueError")

\* C5: int_to_ip raises ValueError for every integer below 0 or above
\* 4294967295 (-1 and 4294967296 among them) and for no integer of
\* [0, 4294967295].
C5_OutOfRange ==
    (IntCall /\ cpc \in {"called", "done"}) =>
        /\ ~InU32(arg.v) => ret1 = Raise("ValueError")
        /\ InU32(arg.v) => ret1.exc = "none"
        /\ ~InU32(Big(-1, Limb - 1)) /\ ~InU32(Big(Limb, 0))

C5_Witness ==
    /\ IntCall /\ cpc = "called"
    /\ arg.v = Big(Limb, 0)
    /\ ret1 = Raise("ValueError")

\* Some octet of the address is written with a leading zero.
HasLeadingZero(s) ==
    \E k \in 1..SegmentCount(Trimmed(s)) :
        LET seg == Segment(Trimmed(s), k)
        IN  AllDecimal(seg) /\ Len(seg) > 1 /\ DigitValue(seg[1]) = 0

\* Whitespace is left inside the text once its two ends are trimmed.
HasInnerWhitespace(s) ==
    \E i \in 1..Len(Trimmed(s)) : Trimmed(s)[i] \in Whitespace

\* C9 as stated: ip_to_int rejects every text in which an octet has a
\* leading zero ("01.2.3.4", "1.2.3.007") or whitespace stands next to an
\* inner segment ("1. 2.3.4").
C9_NoLeadingZeroNoInnerSpace ==
    (TextCall /\ cpc \in {"called", "done"}
        /\ (HasLeadingZero(arg.v) \/ HasInnerWhitespace(arg.v)))
        => ret1 = Raise("ValueError")

\* C9 amended: ip_to_int rejects every text with whitespace inside the
\* trimmed string, and accepts an otherwise valid address whose octets have
\* leading zeros, reading each octet by its decimal value.
C9_InnerSpaceRejectedLeadingZeroRead ==
    (TextCall /\ cpc \in {"called", "done"}) =>
        /\ HasInnerWhitespace(arg.v) => ret1 = Raise("ValueError")
        /\ (HasLeadingZero(arg.v) /\ ValidAddress(arg.v)) =>
               /\ ret1.exc = "none"
               /\ ret1.val.hi = Octet(arg.v, 0) * 256 + Octet(arg.v, 1)
               /\ ret1.val.lo = Octet(arg.v, 2) * 256 + Octet(arg.v, 3)

C9_Witness ==
    /\ TextCall /\ cpc = "called"
    /\ arg.v = <<"1", ".", " ", "2", ".", "3", ".", "4">>
    /\ HasInnerWhitespace(arg.v)
    /\ ret1 = Raise("ValueError")

\* An address with leading zeros that ip_to_int accepts.
C9_LeadingZeroAccepted ==
    /\ TextCall /\ cpc = "called"
    /\ arg.v = <<"0", "1", ".", "2", ".", "3", ".", "4">>
    /\ ret1 = Return(Big(258, 772))

(***************************************************************************)
(* The application: ModernUnitConverterApp                                 *)
(***************************************************************************)
\* "IP Address"
IP_LABEL ==
    <<"I", "P", " ", "A", "d", "d", "r", "e", "s", "s">>

\* "32-bit Integer"
INT_LABEL ==
    <<"3", "2", "-", "b", "i", "t", " ", "I", "n", "t", "e", "g", "e", "r">>

\* The arrow of an entry, as the source file spells it.
ARROW ==
    <<"U+00E2", "U+2020", "U+2019">>

\* The start of the tag of an entry, as the source file spells it.
VB_PREFIX ==
    <<"U+00F0", "U+0178", "U+0161", "U+20AC", " ", "V", "B", "-", "2", "0",
      "0", "0">>

\* "??"
UNKNOWN_OCTET ==
    <<"?", "?">>

\* "Error"
ERROR_WORD ==
    <<"E", "r", "r", "o", "r">>

\* The two messages of a failed conversion.
MSG_INTEGER ==
    <<"E", "n", "t", "e", "r", " ", "a", " ", "v", "a", "l", "i", "d", " ",
      "3", "2", "-", "b", "i", "t", " ", "i", "n", "t", "e", "g", "e", "r",
      " ", "(", "0", "-", "4", "2", "9", "4", "9", "6", "7", "2", "9", "5",
      ")", ".">>

MSG_ADDRESS ==
    <<"E", "n", "t", "e", "r", " ", "a", " ", "v", "a", "l", "i", "d", " ",
      "I", "P", "v", "4", " ", "a", "d", "d", "r", "e", "s", "s", ".">>

\* The text put in the search entry when it is created.
PLACEHOLDER ==
    <<"T", "y", "p", "e", " ", "t", "o", " ", "s", "e", "a", "r", "c", "h",
      ".", ".", ".">>

\* Last10 as seq[:10]: the first ten.
Last10_First10(seq) == SubSeq(seq, 1, IF Len(seq) > 10 THEN 10 ELSE Len(seq))

\* seq[-10:]
Last10(seq) == SubSeq(seq, IF Len(seq) > 10 THEN Len(seq) - 9 ELSE 1, Len(seq))

\* Reversed leaving the order as it is.
Reversed_SameOrder(seq) == seq

\* reversed(seq)
Reversed(seq) == [i \in 1..Len(seq) |-> seq[Len(seq) + 1 - i]]

\* [line for line in all_lines if query in line.lower()]
RECURSIVE FilterLines(_, _)
FilterLines(all_lines, query) ==
    IF all_lines = <<>> THEN <<>>
    ELSE IF Contains(Lower(Head(all_lines)), query)
         THEN <<Head(all_lines)>> \o FilterLines(Tail(all_lines), query)
         ELSE FilterLines(Tail(all_lines), query)

\* SearchItems looking a query up in the in-memory list, not in the file.
SearchItems_FromMemory(sv, hist, exists, lines, readable) ==
    LET query    == Lower(sv)
        filtered == IF query # <<>> THEN FilterLines(hist, query)
                    ELSE Last10(hist)
    IN  Reversed(filtered)

\* What _search_history puts in the listbox, top first, for the text sv of
\* the search entry; readable says whether reading the file succeeds.
SearchItems(sv, hist, exists, lines, readable) ==
    LET query     == Lower(sv)
        all_lines == IF exists /\ readable
                     THEN [i \in 1..Len(lines) |-> Strip(lines[i])]
                     ELSE <<>>
        filtered  == IF query # <<>> THEN FilterLines(all_lines, query)
                     ELSE Last10(hist)
    IN  Reversed(filtered)

\* HistoryAdd with pop() for pop(0): the newest entry is dropped.
HistoryAdd_PopNewest(hist, entry) ==
    LET h == Append(hist, entry)
    IN  IF Len(h) > 10 THEN SubSeq(h, 1, Len(h) - 1) ELSE h

\* self.history after _add_history(entry)
HistoryAdd(hist, entry) ==
    LET h == Append(hist, entry)
    IN  IF Len(h) > 10 THEN Tail(h) ELSE h

\* entry + "\n"
Line(entry) == entry \o <<"LF">>

\* The outcomes of opening the file for append and writing one line. The
\* open creates a missing file; a write that fails is swallowed and leaves
\* the lines as they were.
WriteOutcomes == {"written", "open fails", "write fails"}

\* _add_history opening the file with mode "w": the file is rewritten.
_add_history_Truncating(entry, outcome) ==
    /\ history' = HistoryAdd(history, entry)
    /\ file' = IF outcome = "written" THEN <<Line(entry)>>
               ELSE IF outcome = "write fails" THEN <<>> ELSE file
    /\ file_exists' = (file_exists \/ outcome # "open fails")
    /\ search_var' = <<>>
    /\ history_listbox' = SearchItems(search_var', history', file_exists', file', TRUE)
    /\ recorded' = Append(recorded, entry)
    /\ written' = IF outcome = "written" THEN Append(written, entry) ELSE written
    /\ read_ok' = TRUE

\* _add_history writing first and keeping the entry only when it was written.
_add_history_KeptIfWritten(entry, outcome) ==
    /\ history' = IF outcome = "written" THEN HistoryAdd(history, entry) ELSE history
    /\ file' = IF outcome = "written" THEN Append(file, Line(entry)) ELSE file
    /\ file_exists' = (file_exists \/ outcome # "open fails")
    /\ search_var' = <<>>
    /\ history_listbox' = SearchItems(search_var', history', file_exists', file', TRUE)
    /\ recorded' = Append(recorded, entry)
    /\ written' = IF outcome = "written" THEN Append(written, entry) ELSE written
    /\ read_ok' = TRUE

\* _add_history(entry), with _append_history_to_file and _search_history
_add_history(entry, outcome) ==
    /\ history' = HistoryAdd(history, entry)
    /\ file' = IF outcome = "written" THEN Append(file, Line(entry)) ELSE file
    /\ file_exists' = (file_exists \/ outcome # "open fails")
    /\ search_var' = <<>>
    /\ history_listbox' = SearchItems(search_var', history', file_exists', file', TRUE)
    /\ recorded' = Append(recorded, entry)
    /\ written' = IF outcome = "written" THEN Append(written, entry) ELSE written
    /\ read_ok' = TRUE

\* value.split(".")[2] if len(value.split(".")) == 4 else "??"
ThirdOctet(value) ==
    IF Len(Split(value, ".")) = 4 THEN Split(value, ".")[3] ELSE UNKNOWN_OCTET

\* The try block of _convert_units up to the point where it raises or has
\* bound all its locals; input_label is "unbound" until it is assigned.
TryConvert(reverse, value_str) ==
    IF reverse
    THEN IF PyInt(value_str).exc # "none" \/ int_to_ip(PyInt(value_str).val).exc # "none"
         THEN [raised |-> TRUE, input_label |-> "unbound"]
         ELSE LET result == int_to_ip(PyInt(value_str).val).val
              IN  [raised |-> FALSE, display |-> result,
                   input_label |-> INT_LABEL, output_label |-> IP_LABEL,
                   third_octet |-> ThirdOctet(result)]
    ELSE IF ip_to_int(value_str).exc # "none"
         THEN [raised |-> TRUE, input_label |-> "unbound"]
         ELSE [raised |-> FALSE, display |-> Str(ip_to_int(value_str).val),
               input_label |-> IP_LABEL, output_label |-> INT_LABEL,
               third_octet |-> ThirdOctet(value_str)]

\* third_octet as the except block works it out
ErrorThirdOctet(reverse, value_str) ==
    IF reverse
    THEN IF PyInt(value_str).exc # "none" \/ int_to_ip(PyInt(value_str).val).exc # "none"
         THEN UNKNOWN_OCTET
         ELSE ThirdOctet(int_to_ip(PyInt(value_str).val).val)
    ELSE ThirdOctet(value_str)

\* What can be typed in the value entry.
ValueInputs ==
    { <<"1", ".", "2", ".", "3", ".", "4", " ">>, <<"2", "5", "7">>, <<"-", "1">> }

\* What can be typed in the search entry.
Queries == { <<>>, <<"S", ":", " ", "1">> }

\* The entries ValueInputs can produce, as earlier runs wrote them.
OldEntry(k) ==
    IF k % 3 = 1
    THEN IP_LABEL \o <<":", " ">> \o <<"1", ".", "2", ".", "3", ".", "4">>
         \o <<" ">> \o ARROW \o <<" ">> \o INT_LABEL \o <<":", " ">>
         \o <<"1", "6", "9", "0", "9", "0", "6", "0">>
         \o <<" ", " ", " ", " ">> \o VB_PREFIX \o <<"3">>
    ELSE INT_LABEL \o <<":", " ">> \o <<"2", "5", "7">>
         \o <<" ">> \o ARROW \o <<" ">> \o IP_LABEL \o <<":", " ">>
         \o <<"0", ".", "0", ".", "1", ".", "1">>
         \o <<" ", " ", " ", " ">> \o VB_PREFIX \o <<"1">>

\* Lengths of HISTORY_FILE at startup.
StartLens == {9, 12}

\* Most conversions recorded in one run.
MaxRecords == 2

\* __init__ up to the call of _load_history_from_file
Init ==
    /\ CodecOff
    /\ pc = "constructed"
    /\ history = <<>>
    /\ \/ file_exists = FALSE /\ file = <<>>
       \/ \E n \in StartLens :
             file_exists = TRUE /\ file = [k \in 1..n |-> Line(OldEntry(k))]
    /\ history_listbox = <<>>
    /\ search_var = PLACEHOLDER
    /\ value_entry = <<>>
    /\ reverse_var = FALSE
    /\ conv_result_label = [text |-> <<>>, foreground |-> "RESULT_FG"]
    /\ handler = "__init__"
    /\ exc = "none"
    /\ file0 = file
    /\ loaded = <<>>
    /\ recorded = <<>>
    /\ written = <<>>
    /\ read_ok = TRUE
    /\ RecallEmpty

\* _load_history_from_file keeping the lines as readlines() gives them.
_load_history_from_file_NoStrip ==
    /\ pc = "constructed"
    /\ pc' = "running"
    /\ handler' = "_load_history_from_file"
    /\ IF file_exists
       THEN \E readable \in BOOLEAN, readable_again \in BOOLEAN :
               /\ read_ok' = readable
               /\ IF readable
                  THEN /\ history' = Last10(file)
                       /\ history_listbox' =
                              SearchItems(search_var, history', file_exists,
                                          file, readable_again)
                  ELSE UNCHANGED <<history, history_listbox>>
       ELSE /\ read_ok' = TRUE
            /\ UNCHANGED <<history, history_listbox>>
    /\ loaded' = history'
    /\ UNCHANGED <<file_exists, file, search_var, value_entry, reverse_var,
                   conv_result_label, exc, file0, recorded, written, codecVars,
                   recallVars>>

_load_history_from_file ==
    /\ pc = "constructed"
    /\ pc' = "running"
    /\ handler' = "_load_history_from_file"
    /\ IF file_exists
       THEN \E readable \in BOOLEAN, readable_again \in BOOLEAN :
               \* readable: the load's readlines(); readable_again: the read
               \* of the _search_history it then calls
               /\ read_ok' = readable
               /\ IF readable
                  THEN /\ history' = [i \in 1..Len(Last10(file)) |->
                                         Strip(Last10(file)[i])]
                       /\ history_listbox' =
                              SearchItems(search_var, history', file_exists,
                                          file, readable_again)
                  ELSE UNCHANGED <<history, history_listbox>>
       ELSE /\ read_ok' = TRUE
            /\ UNCHANGED <<history, history_listbox>>
    /\ loaded' = history'
    /\ UNCHANGED <<file_exists, file, search_var, value_entry, reverse_var,
                   conv_result_label, exc, file0, recorded, written, codecVars,
                   recallVars>>

\* A key typed in the search entry: the entry's text becomes one of texts
\* and the <KeyRelease> binding runs _search_history.
SearchKey(texts) ==
    /\ pc = "running"
    /\ \E q \in texts, readable \in BOOLEAN :
          /\ search_var' = q
          /\ read_ok' = (Lower(q) # <<>> /\ file_exists => readable)
          /\ history_listbox' =
                 SearchItems(q, history, file_exists, file, readable)
    /\ handler' = "_search_history"
    /\ exc' = "none"
    /\ UNCHANGED <<pc, history, file_exists, file, value_entry, reverse_var,
                   conv_result_label, file0, loaded, recorded, written,
                   codecVars, recallVars>>

_search_history == SearchKey(Queries)

\* The user edits the value entry, leaving one of texts in it.
TypeText(texts) ==
    /\ pc = "running"
    /\ \E s \in texts : value_entry' = s
    /\ handler' = "edit"
    /\ exc' = "none"
    /\ read_ok' = TRUE
    /\ UNCHANGED <<pc, history, file_exists, file, history_listbox, search_var,
                   reverse_var, conv_result_label, file0, loaded, recorded,
                   written, codecVars, recallVars>>

TypeValue == TypeText(ValueInputs)

\* The Reverse checkbutton is toggled and runs its command.
_update_conversion_labels ==
    /\ pc = "running"
    /\ reverse_var' = ~reverse_var
    /\ value_entry' = <<>>
    /\ conv_result_label' = [conv_result_label EXCEPT !.text = <<>>]
    /\ handler' = "_update_conversion_labels"
    /\ exc' = "none"
    /\ read_ok' = TRUE
    /\ UNCHANGED <<pc, history, file_exists, file, history_listbox, search_var,
                   file0, loaded, recorded, written, codecVars,
                   recallVars>>

_convert_units ==
    /\ pc = "running"
    /\ Len(recorded) < MaxRecords
    /\ handler' = "_convert_units"
    /\ LET reverse   == reverse_var
           value_str == Strip(value_entry)
           try       == TryConvert(reverse, value_str)
       IN  IF ~try.raised
           THEN LET vb_code == VB_PREFIX \o try.third_octet
                    history_entry ==
                        try.input_label \o <<":", " ">> \o value_str \o <<" ">>
                        \o ARROW \o <<" ">> \o try.output_label \o <<":", " ">>
                        \o try.display \o <<" ", " ", " ", " ">> \o vb_code
                IN  /\ conv_result_label' =
                           [text |-> try.display, foreground |-> "RESULT_FG"]
                    /\ \E outcome \in WriteOutcomes :
                           _add_history(history_entry, outcome)
                    /\ exc' = "none"
           ELSE /\ conv_result_label' =
                       [text |-> IF reverse THEN MSG_INTEGER ELSE MSG_ADDRESS,
                        foreground |-> "ERROR_FG"]
                /\ IF try.input_label = "unbound"
                   THEN \* error_entry reads input_label, which was never bound
                        /\ exc' = "UnboundLocalError"
                        /\ read_ok' = TRUE
                        /\ UNCHANGED <<history, file, file_exists, search_var,
                                       history_listbox, recorded, written>>
                   ELSE /\ \E outcome \in WriteOutcomes :
                               _add_history(
                                   try.input_label \o <<":", " ">> \o value_str
                                   \o <<" ">> \o ARROW \o <<" ">> \o ERROR_WORD
                                   \o <<" ", " ", " ", " ">> \o VB_PREFIX
                                   \o ErrorThirdOctet(reverse, value_str),
                                   outcome)
                        /\ exc' = "none"
    /\ UNCHANGED <<pc, value_entry, reverse_var, file0, loaded, codecVars,
                   recallVars>>

Next ==
    \/ _load_history_from_file
    \/ _search_history
    \/ TypeValue
    \/ _update_conversion_labels
    \/ _convert_units

Spec == Init /\ [][Next]_vars

(***************************************************************************)
(* Input recall: the Up, Down and Return handlers of the two entries       *)
(***************************************************************************)
\* Most values kept in one input history.
MaxCommits == 2

\* What can be typed in the search entry while values are recalled.
RecallQueries == { <<>>, <<" ">>, <<"a">>, <<" ", "b">> }

\* What can be typed in the value entry while values are recalled.
RecallValues ==
    { <<"1", "0", ".", "0", ".", "0", ".", "1">>,
      <<"1", "0", ".", "0", ".", "0", ".", "2", " ">>,
      <<" ">> }

\* The keys whose release reaches _conv_input_store.
Keysyms == {"Return", "a"}

\* history[i] in Python: i counts from 0, a negative i from the end.
ItemAt(hist, i) ==
    IF 0 <= i /\ i < Len(hist) THEN Return(hist[i + 1])
    ELSE IF i < 0 /\ 0 - i <= Len(hist) THEN Return(hist[Len(hist) + i + 1])
    ELSE Raise("IndexError")

\* The text of an entry after delete(0, END) and insert(0, hist[i]).
Inserted(hist, i) ==
    IF ItemAt(hist, i).exc = "none" THEN ItemAt(hist, i).val ELSE <<>>

\* Stored without the comparison with the last value.
Stored_Always(hist, value) ==
    IF value # <<>> THEN Append(hist, value) ELSE hist

\* The input history after the store handler has seen value.
Stored(hist, value) ==
    IF value # <<>> /\ (hist = <<>> \/ value # hist[Len(hist)])
    THEN Append(hist, value)
    ELSE hist

\* UpIndex starting at the first value.
UpIndex_FromFirst(hist, index) ==
    IF index = None THEN <<0>>
    ELSE IF index[1] > 0 THEN <<index[1] - 1>>
    ELSE index

\* UpIndex going down without a test.
UpIndex_NoFloor(hist, index) ==
    IF index = None THEN <<Len(hist) - 1>> ELSE <<index[1] - 1>>

\* The index after the Up handler, for a non-empty history.
UpIndex(hist, index) ==
    IF index = None THEN <<Len(hist) - 1>>
    ELSE IF index[1] > 0 THEN <<index[1] - 1>>
    ELSE index

\* DownIndex leaving the index at the last value.
DownIndex_StayAtLast(hist, index) ==
    IF index[1] < Len(hist) - 1 THEN <<index[1] + 1>> ELSE index

\* The index after the Down handler, for an index that is not None.
DownIndex(hist, index) ==
    IF index[1] < Len(hist) - 1 THEN <<index[1] + 1>> ELSE None

\* What the recall handlers leave alone.
recallFrame ==
    <<pc, history, file_exists, file, history_listbox, reverse_var,
      conv_result_label, file0, loaded, recorded, written, codecVars>>

\* A key is released in the value entry.
_conv_input_store ==
    /\ pc = "running"
    /\ \E keysym \in Keysyms :
          IF keysym = "Return"
          THEN /\ Len(Stored(conv_input_history, Strip(value_entry))) <= MaxCommits
               /\ conv_input_history' = Stored(conv_input_history, Strip(value_entry))
               /\ conv_input_index' = None
               /\ handler' = "_conv_input_store"
          ELSE /\ UNCHANGED <<conv_input_history, conv_input_index>>
               /\ handler' = "_conv_input_store, not Return"
    /\ exc' = "none"
    /\ read_ok' = TRUE
    /\ UNCHANGED <<value_entry, search_var, search_input_history,
                   search_input_index, recallFrame>>

_conv_input_up ==
    /\ pc = "running"
    /\ handler' = "_conv_input_up"
    /\ read_ok' = TRUE
    /\ IF conv_input_history = <<>>
       THEN /\ exc' = "none"
            /\ UNCHANGED <<conv_input_index, value_entry>>
       ELSE /\ conv_input_index' = UpIndex(conv_input_history, conv_input_index)
            /\ value_entry' = Inserted(conv_input_history, conv_input_index'[1])
            /\ exc' = ItemAt(conv_input_history, conv_input_index'[1]).exc
    /\ UNCHANGED <<conv_input_history, search_var, search_input_history,
                   search_input_index, recallFrame>>

_conv_input_down ==
    /\ pc = "running"
    /\ handler' = "_conv_input_down"
    /\ read_ok' = TRUE
    /\ IF conv_input_index = None
       THEN /\ exc' = "none"
            /\ UNCHANGED <<conv_input_index, value_entry>>
       ELSE /\ conv_input_index' = DownIndex(conv_input_history, conv_input_index)
            /\ IF conv_input_index' # None
               THEN /\ value_entry' =
                           Inserted(conv_input_history, conv_input_index'[1])
                    /\ exc' = ItemAt(conv_input_history, conv_input_index'[1]).exc
               ELSE /\ value_entry' = <<>>
                    /\ exc' = "none"
    /\ UNCHANGED <<conv_input_history, search_var, search_input_history,
                   search_input_index, recallFrame>>

\* _search_input_store resetting the index of the value entry.
_search_input_store_OtherIndex ==
    /\ pc = "running"
    /\ Len(Stored(search_input_history, Strip(search_var))) <= MaxCommits
    /\ search_input_history' = Stored(search_input_history, Strip(search_var))
    /\ conv_input_index' = None
    /\ handler' = "_search_input_store"
    /\ exc' = "none"
    /\ read_ok' = TRUE
    /\ UNCHANGED <<value_entry, search_var, conv_input_history,
                   search_input_index, recallFrame>>

\* Return is pressed in the search entry.
_search_input_store ==
    /\ pc = "running"
    /\ Len(Stored(search_input_history, Strip(search_var))) <= MaxCommits
    /\ search_input_history' = Stored(search_input_history, Strip(search_var))
    /\ search_input_index' = None
    /\ handler' = "_search_input_store"
    /\ exc' = "none"
    /\ read_ok' = TRUE
    /\ UNCHANGED <<value_entry, search_var, conv_input_history,
                   conv_input_index, recallFrame>>

_search_input_up ==
    /\ pc = "running"
    /\ handler' = "_search_input_up"
    /\ read_ok' = TRUE
    /\ IF search_input_history = <<>>
       THEN /\ exc' = "none"
            /\ UNCHANGED <<search_input_index, search_var>>
       ELSE /\ search_input_index' = UpIndex(search_input_history, search_input_index)
            /\ search_var' = Inserted(search_input_history, search_input_index'[1])
            /\ exc' = ItemAt(search_input_history, search_input_index'[1]).exc
    /\ UNCHANGED <<search_input_history, value_entry, conv_input_history,
                   conv_input_index, recallFrame>>

_search_input_down ==
    /\ pc = "running"
    /\ handler' = "_search_input_down"
    /\ read_ok' = TRUE
    /\ IF search_input_index = None
       THEN /\ exc' = "none"
            /\ UNCHANGED <<search_input_index, search_var>>
       ELSE /\ search_input_index' =
                   DownIndex(search_input_history, search_input_index)
            /\ IF search_input_index' # None
               THEN /\ search_var' =
                           Inserted(search_input_history, search_input_index'[1])
                    /\ exc' = ItemAt(search_input_history, search_input_index'[1]).exc
               ELSE /\ search_var' = <<>>
                    /\ exc' = "none"
    /\ UNCHANGED <<search_input_history, value_entry, conv_input_history,
                   conv_input_index, recallFrame>>

\* A first run, with no history file, in which values are typed, stored and
\* recalled in the two entries.
InitRecall == Init /\ ~file_exists

NextRecall ==
    \/ _load_history_from_file
    \/ TypeText(RecallValues)
    \/ SearchKey(RecallQueries \cup {search_var})
    \/ _conv_input_store
    \/ _conv_input_up
    \/ _conv_input_down
    \/ _search_input_store
    \/ _search_input_up
    \/ _search_input_down

SpecRecall == InitRecall /\ [][NextRecall]_vars

(***************************************************************************)
(* The application's contract                                              *)
(***************************************************************************)
\* C6: every run of _convert_units, in either direction, gives exactly one
\* entry to _add_history, also when the conversion fails, and lets no
\* exception escape.
C6_EveryAttemptRecorded ==
    [][handler' = "_convert_units" =>
          /\ Len(recorded') = Len(recorded) + 1
          /\ exc' = "none"]_vars

\* The entries the startup load and then _add_history were given, in order.
AllEntries == loaded \o recorded

Smaller(a, b) == IF a < b THEN a ELSE b

\* C7: once the startup load is done, self.history holds at most 10 entries
\* and is, in order, the last min(10, k) of the k entries loaded and then
\* recorded; the 11th entry pushes out the oldest one.
C7_LastTenInOrder ==
    pc = "running" =>
        LET k == Len(AllEntries)
            m == Smaller(10, k)
        IN  /\ Len(history) <= 10
            /\ Len(history) = m
            /\ \A i \in 1..m : history[i] = AllEntries[k - m + i]

C7_Witness ==
    /\ pc = "running"
    /\ Len(loaded) = 9
    /\ Len(recorded) = 2
    /\ recorded[1] = OldEntry(1)
    /\ recorded[2] = OldEntry(2)
    /\ Len(history) = 10
    /\ history[1] = loaded[2]
    /\ history[10] = recorded[2]

IsPrefix(a, b) == Len(a) <= Len(b) /\ \A i \in 1..Len(a) : b[i] = a[i]

\* C8: the file only grows at its end: what it held before a step is a
\* prefix of what it holds after; a record whose write succeeds adds exactly
\* the entry as one line at the end; the startup load, a search and the
\* eviction from self.history leave the file as it is; so the file holds its
\* lines at startup followed by every entry written since.
C8_AppendOnly ==
    [][/\ IsPrefix(file, file')
       /\ Len(written') = Len(written) + 1 =>
              /\ handler' = "_convert_units"
              /\ Len(file') = Len(file) + 1
              /\ file'[Len(file')] = recorded'[Len(recorded')] \o <<"LF">>
       /\ Len(written') = Len(written) => file' = file
       /\ handler' \in {"_load_history_from_file", "_search_history"} => file' = file
       /\ Len(file') = Len(file0') + Len(written')
       /\ \A i \in 1..Len(written') :
              file'[Len(file0') + i] = written'[i] \o <<"LF">>]_vars

C8_Witness ==
    /\ Len(file0) = 12
    /\ Len(written) = 2
    /\ Len(file) = 14
    /\ Len(history) = 10
    /\ handler = "_search_history"

\* The places of the file's lines that hold the query, letter case aside.
MatchingLines(q) ==
    {i \in 1..Len(file) :
        \E at \in 0..(Len(file[i]) - Len(q)) :
            \A j \in 1..Len(q) : LowerChar(file[i][at + j]) = LowerChar(q[j])}

IsTailOf(seq, lines) ==
    LET n == Len(lines)
        m == Smaller(10, n)
    IN  /\ Len(seq) = m
        /\ \A i \in 1..m : seq[i] = Trimmed(lines[n - m + i])

\* C11: when the write of a recorded entry fails, nothing escapes, the
\* entry is still put at the end of self.history, the oldest entry leaving
\* beyond 10, and the file holds what it held.
C11_WriteFailureIgnored ==
    [][(Len(recorded') = Len(recorded) + 1 /\ Len(written') = Len(written)) =>
          LET all == Append(history, recorded'[Len(recorded')])
              m   == Smaller(10, Len(all))
          IN  /\ exc' = "none"
              /\ file' = file
              /\ Len(history') = m
              /\ \A i \in 1..m : history'[i] = all[Len(all) - m + i]]_vars

C11_Witness ==
    /\ handler = "_convert_units"
    /\ exc = "none"
    /\ Len(loaded) = 10
    /\ Len(recorded) = 1
    /\ written = <<>>
    /\ file = file0
    /\ Len(history) = 10
    /\ history[10] = recorded[1]
    /\ history[1] = loaded[2]

\* C12: a search with an empty query, and the refresh at the end of every
\* record, list self.history with the latest entry first, whatever the file
\* holds.
C12_EmptyQueryListsMemory ==
    [][((handler' = "_search_history" /\ search_var' = <<>>)
           \/ Len(recorded') = Len(recorded) + 1) =>
          /\ Len(history_listbox') = Len(history')
          /\ \A i \in 1..Len(history') :
                 history_listbox'[i] = history'[Len(history') + 1 - i]]_vars

C12_Witness ==
    /\ handler = "_search_history"
    /\ search_var = <<>>
    /\ Len(file) = 12
    /\ Len(recorded) = 1
    /\ written = <<>>
    /\ Len(history) = 10
    /\ Len(history_listbox) = 10
    /\ history_listbox[1] = recorded[1]
    /\ history_listbox[10] = history[1]
    /\ history[1] # history[10]

\* C13: the startup load leaves in self.history the last min(10, N) lines
\* of the file, each trimmed, oldest first; with the file missing or the
\* read failing nothing escapes and self.history is empty.
C13_LoadRecent ==
    handler = "_load_history_from_file" =>
        /\ exc = "none"
        /\ IF file_exists /\ read_ok
           THEN IsTailOf(history, file0)
           ELSE history = <<>>

C13_Witness ==
    /\ handler = "_load_history_from_file"
    /\ file_exists /\ read_ok
    /\ Len(file0) = 12
    /\ file0[3] = OldEntry(3) \o <<"LF">>
    /\ Len(history) = 10
    /\ history[1] = OldEntry(3)
    /\ history[10] = OldEntry(12)

\* C18 as stated: once the startup load is done, self.history is the last
\* min(10, N) lines of the file, in file order.
C18_MemoryIsTailOfFile == pc = "running" => IsTailOf(history, file)

\* The startup load took the lines of the file (none when it was missing).
LoadTookFile == Len(loaded) = Smaller(10, Len(file0))

\* C18 amended: when the startup load read the file and every write of a
\* recorded entry succeeded, self.history is the last min(10, N) lines of
\* the file, in file order, each without its newline.
C18_MemoryIsTailOfFileWhenIOSucceeds ==
    (pc = "running" /\ LoadTookFile /\ written = recorded) =>
        IsTailOf(history, file)

C18_Witness ==
    /\ pc = "running"
    /\ LoadTookFile
    /\ Len(loaded) = 10
    /\ Len(recorded) = 2
    /\ written = recorded
    /\ Len(file) = 14
    /\ history[1] = Trimmed(file[5])
    /\ history[10] = recorded[2]

\* The bytes of n, most significant first.
ByteOf(n, k) ==
    IF k = 0 THEN n.hi \div 256
    ELSE IF k = 1 THEN n.hi % 256
    ELSE IF k = 2 THEN n.lo \div 256
    ELSE n.lo % 256

\* C17: for n in [0, 4294967295], int_to_ip(n) is four segments joined by
\* '.', segment k the plain decimal, without leading zeros, of byte
\* (n >> (8*(3-k))) & 255; 0 gives "0.0.0.0" and 4294967295 gives
\* "255.255.255.255".
C17_FourPlainDecimalBytes ==
    (IntCall /\ cpc \in {"called", "done"} /\ InU32(arg.v)) =>
        /\ ret1.exc = "none"
        /\ SegmentCount(ret1.val) = 4
        /\ \A k \in 0..3 : Segment(ret1.val, k + 1) = PlainDecimal(ByteOf(arg.v, k))
        /\ arg.v = Big(0, 0) => ret1.val = <<"0", ".", "0", ".", "0", ".", "0">>
        /\ arg.v = Big(65535, 65535) =>
               ret1.val = <<"2", "5", "5", ".", "2", "5", "5", ".",
                            "2", "5", "5", ".", "2", "5", "5">>

C17_Witness ==
    /\ IntCall /\ cpc = "called"
    /\ arg.v = Big(10 * 256 + 0, 100 * 256 + 1)
    /\ ret1 = Return(<<"1", "0", ".", "0", ".", "1", "0", "0", ".", "1">>)

(***************************************************************************)
(* Input recall: the contract of the two entries' histories                *)
(***************************************************************************)
ConvHandlers ==
    {"_conv_input_store", "_conv_input_store, not Return", "_conv_input_up",
     "_conv_input_down"}

SearchHandlers == {"_search_input_store", "_search_input_up", "_search_input_down"}

\* Recalling the previous value of seq with cursor cur and field fld gives
\* cursor cur2 and field fld2.
RecallPrevious(seq, cur, fld, cur2, fld2) ==
    IF seq = <<>>
    THEN cur2 = cur /\ fld2 = fld
    ELSE /\ cur = None => cur2 = <<Len(seq) - 1>>
         /\ (cur # None /\ cur[1] > 0) => cur2 = <<cur[1] - 1>>
         /\ (cur # None /\ cur[1] = 0) => cur2 = cur
         /\ cur2 # None
         /\ cur2[1] \in 0..(Len(seq) - 1)
         /\ fld2 = seq[cur2[1] + 1]

\* C14: Up in an entry whose history is empty changes neither the index nor
\* the entry; otherwise an index of None becomes the last index, an index
\* above 0 goes down by one, an index of 0 stays, and the entry holds the
\* history's value at the new index.
C14_RecallPrevious ==
    [][ /\ handler' = "_conv_input_up" =>
              RecallPrevious(conv_input_history, conv_input_index, value_entry,
                             conv_input_index', value_entry')
        /\ handler' = "_search_input_up" =>
              RecallPrevious(search_input_history, search_input_index,
                             search_var, search_input_index', search_var')
      ]_vars

\* Up has been pressed in the search entry until the first of two values
\* is shown.
C14_Witness ==
    /\ handler = "_search_input_up"
    /\ Len(search_input_history) = 2
    /\ search_input_index = <<0>>
    /\ search_var = search_input_history[1]
    /\ search_var # search_input_history[2]

\* Recalling the next value of seq with cursor cur and field fld gives
\* cursor cur2 and field fld2.
RecallNext(seq, cur, fld, cur2, fld2) ==
    IF cur = None
    THEN cur2 = cur /\ fld2 = fld
    ELSE IF cur[1] < Len(seq) - 1
    THEN cur2 = <<cur[1] + 1>> /\ fld2 = seq[cur[1] + 2]
    ELSE cur2 = None /\ fld2 = <<>>

ExampleHistory ==
    << <<"1", "0", ".", "0", ".", "0", ".", "1">>,
       <<"1", "0", ".", "0", ".", "0", ".", "2">> >>

\* C15: Down with an index of None changes neither the index nor the entry;
\* with an index before the last it adds one and shows that value; with the
\* last index it empties the entry and sets the index to None.  With the
\* history ["10.0.0.1", "10.0.0.2"] and no index, Up shows "10.0.0.2", Up
\* again shows "10.0.0.1", Down shows "10.0.0.2" and Down again leaves an
\* empty entry and no index.
C15_RecallNext ==
    [][ /\ handler' = "_conv_input_down" =>
              RecallNext(conv_input_history, conv_input_index, value_entry,
                         conv_input_index', value_entry')
        /\ handler' = "_search_input_down" =>
              RecallNext(search_input_history, search_input_index, search_var,
                         search_input_index', search_var')
        /\ (conv_input_history = ExampleHistory /\ handler' = "_conv_input_up") =>
              /\ conv_input_index = None =>
                    conv_input_index' = <<1>> /\ value_entry' = ExampleHistory[2]
              /\ conv_input_index = <<1>> =>
                    conv_input_index' = <<0>> /\ value_entry' = ExampleHistory[1]
        /\ (conv_input_history = ExampleHistory /\ handler' = "_conv_input_down") =>
              /\ conv_input_index = <<0>> =>
                    conv_input_index' = <<1>> /\ value_entry' = ExampleHistory[2]
              /\ conv_input_index = <<1>> =>
                    conv_input_index' = None /\ value_entry' = <<>>
      ]_vars

\* Down has been pressed at the last value of the example history.
C15_Witness ==
    /\ handler = "_conv_input_down"
    /\ conv_input_history = ExampleHistory
    /\ conv_input_index = None
    /\ value_entry = <<>>

\* seq2 keeps the values of seq in their places.
Extends(seq2, seq) ==
    Len(seq2) >= Len(seq) /\ \A i \in 1..Len(seq) : seq2[i] = seq[i]

\* seq has no empty value and no two equal values next to each other.
NoEmptyNoRepeat(seq) ==
    /\ \A i \in 1..Len(seq) : seq[i] # <<>>
    /\ \A i \in 1..(Len(seq) - 1) : seq[i] # seq[i + 1]

\* Committing the field fld to seq with cursor cur gives seq2 and cur2.
Commit(seq, fld, seq2, cur2) ==
    LET value == Trimmed(fld)
        fresh == value # <<>> /\ (seq = <<>> \/ value # seq[Len(seq)])
    IN  /\ fresh => seq2 = Append(seq, value)
        /\ ~fresh => seq2 = seq
        /\ cur2 = None

\* C16: Return in an entry appends the entry's trimmed text to its history
\* exactly when the text is not empty and is not the history's last value,
\* and sets the index to None either way; no step removes or moves a stored
\* value; so a history never holds an empty value nor the same value twice
\* in a row.
C16_Commit ==
    /\ [](NoEmptyNoRepeat(conv_input_history)
            /\ NoEmptyNoRepeat(search_input_history))
    /\ [][ /\ handler' = "_conv_input_store" =>
                 Commit(conv_input_history, value_entry,
                        conv_input_history', conv_input_index')
           /\ handler' = "_search_input_store" =>
                 Commit(search_input_history, search_var,
                        search_input_history', search_input_index')
           /\ Extends(conv_input_history', conv_input_history)
           /\ Extends(search_input_history', search_input_history)
         ]_vars

\* Return has been pressed in the value entry on a text that, trimmed, is
\* the value stored last.
C16_Witness ==
    /\ handler = "_conv_input_store"
    /\ Len(conv_input_history) = 2
    /\ value_entry # conv_input_history[2]
    /\ Trimmed(value_entry) = conv_input_history[2]
    /\ conv_input_index = None

\* C19: the handlers of the value entry leave the search entry's history and
\* index as they were, and the handlers of the search entry leave the value
\* entry's history and index as they were.
C19_Independent ==
    [][ /\ handler' \in ConvHandlers =>
              UNCHANGED <<search_input_history, search_input_index>>
        /\ handler' \in SearchHandlers =>
              UNCHANGED <<conv_input_history, conv_input_index>>
      ]_vars

\* Return has been pressed in the search entry while the value entry shows
\* a recalled value.
C19_Witness ==
    /\ handler = "_search_input_store"
    /\ search_input_history # <<>>
    /\ search_input_index = None
    /\ conv_input_history # <<>>
    /\ conv_input_index # None

\* cur is None or an index of seq.
CursorInRange(seq, cur) ==
    cur = None \/ (0 <= cur[1] /\ cur[1] < Len(seq))

\* C20: each entry's index is None or at least 0 and below the length of
\* the entry's history, no handler reads the history at an index it does
\* not have, and the index of an empty history is None.
C20_CursorInRange ==
    /\ CursorInRange(conv_input_history, conv_input_index)
    /\ CursorInRange(search_input_history, search_input_index)
    /\ exc # "IndexError"
    /\ conv_input_history = <<>> => conv_input_index = None
    /\ search_input_history = <<>> => search_input_index = None

\* Down has been pressed in the search entry and moved to the last of two
\* values.
C20_Witness ==
    /\ handler = "_search_input_down"
    /\ Len(search_input_history) = 2
    /\ search_input_index = <<1>>
    /\ search_var = search_input_history[2]

=============================================================================
